---- MODULE Spec2Model ----
(***************************************************************************)
(* Timer-driven deferred-sampling core of the firmware projects:           *)
(*   - proyecto2_e3: ultrasonic distance meter with LEDs, LCD, UART        *)
(*     command protocol and adjustable timer period;                       *)
(*   - analog I/O example: replay of a stored signal on the DAC.           *)
(* Interrupt handlers and the UART callback run to completion as single    *)
(* steps; the worker task is split at every read of a shared flag and at   *)
(* every call that writes an output sink, so that a handler may run        *)
(* between any two of them.                                                *)
(***************************************************************************)
EXTENDS Integers, Sequences, FiniteSets, TLC

(*------------------------- program constants -----------------------------*)
CONFIG_MEASURE_PERIOD == 1000 * 1000
TIEMPO_DE_LECTURA_MINIMO == 100 * 1000
TIEMPO_DE_LECTURA_MAXIMO == 2000 * 1000
TIEMPO_DE_LECTURA_STEP == 100
MIN_DIST == 10
MED_DIST == 20
MAX_DIST == 30
SIGNAL_SIZE == 231
numero_a_mostrar == 127
ON == 1
OFF == 0
TOGGLE == 2
digitos_del_LCD == 3

(*------------------------------ bounds -----------------------------------*)
\* pending notifications a timer may pile up before the model stops firing it
MaxNotify == 2
\* in Spec, 'F'/'S' are accepted while the period stays this many steps
\* around CONFIG_MEASURE_PERIOD (SpecPeriod has no such window)
MaxDrift == 1
\* longest run of consecutive 'F' commands from the maximum that is counted
MaxRun == 10
\* samples written to the DAC by the replay source
MaxSamples == 470

\* largest distance (cm) given to encenderLedSegunDistancia when every
\* distance is tried
MaxDistance == 40

\* largest data and largest digits given to convertToBcdArray
MaxData == 1100
MaxDigits == 3
\* largest n_ciclos and largest periodo given to function_leds
MaxCiclos == 2
MaxPeriodo == 1
MaxFires == 3
MaxPolls == 3

(*------------------------------ inputs -----------------------------------*)
\* bytes the PC may send: the five commands, 'M' (own empty case) and 'X'
Bytes == {"O", "H", "I", "F", "S", "M", "X"}
PeriodCmds == {"F", "S"}
\* physical distances (cm) the sensor may report
Distances == {5, 35}
\* values the ADC may return
AdcValues == {0, 1023}

VARIABLES
    medir, hold, pulgadas,  \* mode flags
    period,                 \* timer_medir.period
    hw_period,              \* period programmed in TIMER_A
    hw_updates,             \* number of TimerUpdatePeriod calls so far modulo 2
    leds, lcd,              \* visual sinks
    uart_tx,                \* the item most recently sent on UART_PC
    notify,                 \* notification value of Medir_MostrarPantalla_Task
    pc, distancia,          \* worker position and its local variable
    taken,                  \* value returned by the last ulTaskNotifyTake
    fires,                  \* timer callbacks run since boot, NotCounted in the
                            \* specifications that do not bound them
    cycles,                 \* worker cycles started since boot, or NotCounted
    reads,                  \* sensor reads done in the current worker cycle
    lines,                  \* measurement lines completed in the current cycle
    hold_cycle,             \* hold has been true since the take of this cycle
    medir_cycle,            \* medir has been true since the take of this cycle
    stable,                 \* no flag has been toggled since the take of this cycle
    unit_read,              \* which read the current cycle has made: "cm", "in"
                            \* or "none"
    toggles,                \* per flag, number of toggles so far modulo 2
    f_run,                  \* n if the last n commands were all 'F' and the period
                            \* was TIEMPO_DE_LECTURA_MAXIMO before them, else NoRun
    sample_index, signal_value, \* replay source
    notify_w,               \* notification value of analogWriteTask
    notify_r,               \* notification value of analogReadAndSendTask
    dac_out,                \* values written to the DAC
    adc_value,              \* last value read from the ADC
    ar_pc,                  \* position of analogReadAndSendTask
    prog,                   \* the program that is running
    main_pc,                \* number of calls app_main has completed
    handles,                \* tasks whose handle is no longer NULL
    timers,                 \* timers that have been started
    lost,                   \* a timer callback has notified a NULL handle
    sw_down,                \* the switches that are held down
    press_toggles,          \* toggles Teclas_Task has made of each flag since
                            \* its switch was last pressed
    kb_letra,               \* leer_teclado's letra between its echo and its
                            \* switch, NoByte outside leer_teclado
    kb_reg,                 \* the flag value `flag = !flag` has loaded and not
                            \* yet stored back, <<>> outside that statement
    data, digits,           \* parameters of convertToBcdArray
    bcd_number,             \* the memory its third parameter points to
    bcd_i, bcd_pc,          \* its loop variable i and its position
    data_in,                \* the value of data at the call
    bcd_written,            \* indices of bcd_number written since the call
    gpio_data,              \* levels of the data pins gpio_array[0..3] (b0..b3)
    gpio_sel,               \* levels of the selector pins digit_array[0..]
    dn_pc, dn_i,            \* position in displayNumber and its loop variable
    sg_pc, sg_i,            \* position in setGpioFromBcd and its loop variable
    bcd_digit,              \* parameter of setGpioFromBcd
    my_leds,                \* the struct Tleds function_leds is given
    fl_pc,                  \* position in function_leds
    fl_i, fl_j,             \* its loop variables: cycles done, delays done
    led_calls               \* calls made to the LED driver since its entry

vars == <<medir, hold, pulgadas, period, hw_period, hw_updates, leds, lcd, uart_tx, notify,
          fires, cycles, pc, distancia, taken, reads, unit_read, lines, hold_cycle, medir_cycle, stable, toggles,
          f_run, sample_index, signal_value, notify_w, notify_r, dac_out, adc_value, ar_pc,
          prog, main_pc, handles, timers, lost, kb_letra, kb_reg,
          sw_down, press_toggles,
          data, digits, bcd_number, bcd_i, bcd_pc, data_in, bcd_written,
          gpio_data, gpio_sel, dn_pc, dn_i, sg_pc, sg_i, bcd_digit,
          my_leds, fl_pc, fl_i, fl_j, led_calls>>

flagVars == <<medir, hold, pulgadas>>
periodVars == <<period, hw_period, hw_updates>>
sinkVars == <<leds, lcd>>
workerVars == <<pc, distancia, taken, cycles, reads, unit_read, lines>>
readVars == <<adc_value, ar_pc>>
analogVars == <<sample_index, signal_value, notify_w, notify_r, dac_out, readVars>>
bootVars == <<prog, main_pc, handles, timers, lost>>
\* state of the other programs, which no step of proyecto2_e3 or of the
\* analog example writes
bcdVars == <<data, digits, bcd_number, bcd_i, bcd_pc, data_in, bcd_written>>
flVars == <<my_leds, fl_pc, fl_i, fl_j, led_calls>>
kbVars == <<kb_letra, kb_reg>>
pollVars == <<sw_down, press_toggles>>
gpioVars == <<gpio_data, gpio_sel, dn_pc, dn_i, sg_pc, sg_i, bcd_digit>>
otherVars == <<bootVars, kbVars, bcdVars, flVars, pollVars, gpioVars>>

(*--------------------------- peripheral drivers --------------------------*)
LedsOffAll == <<FALSE, FALSE, FALSE>>
LedOn(l, k) == [l EXCEPT ![k] = TRUE]
LedOff(l, k) == [l EXCEPT ![k] = FALSE]
LedToggle(l, k) == [l EXCEPT ![k] = ~l[k]]
LcdItsE0803Off == [on |-> FALSE, value |-> 0]
LcdItsE0803Write(v) == [on |-> TRUE, value |-> v]

RECURSIVE UartItoa(_)
UartItoa(n) == IF n < 10 THEN <<n>> ELSE Append(UartItoa(n \div 10), n % 10)

\* HcSr04ReadDistanceInInches: the same echo expressed in whole inches
InchesOf(cm) == (cm * 100) \div 254

\* nothing has been sent yet
NoItem == <<"none", <<>>>>
Echo(b) == <<"echo", <<b>>>>
Text(s) == <<"text", <<s>>>>
Number(v) == <<"number", UartItoa(v)>>

(*------------------------------ proyecto2_e3 -----------------------------*)
encenderLedSegunDistancia(distance, l) ==
    IF distance < MIN_DIST THEN LedsOffAll
    ELSE IF distance >= MIN_DIST /\ distance < MED_DIST
         THEN LedOff(LedOff(LedOn(l, 1), 2), 3)
    ELSE IF distance >= MED_DIST /\ distance < MAX_DIST
         THEN LedOff(LedOn(LedOn(l, 1), 2), 3)
    ELSE IF distance >= MAX_DIST
         THEN LedOn(LedOn(LedOn(l, 1), 2), 3)
    ELSE l

Flip(n) == (n + 1) % 2

NotCounted == 0 - 1

\* one more event on a counter that is kept
Count(n) == IF n = NotCounted THEN NotCounted ELSE n + 1

\* timer callback
Medir_MostrarPantalla ==
    /\ notify < MaxNotify
    /\ notify' = notify + 1
    /\ fires' = Count(fires)
    /\ UNCHANGED <<flagVars, periodVars, sinkVars, uart_tx, workerVars,
                   hold_cycle, medir_cycle, stable, toggles, f_run, analogVars, otherVars>>

\* tecla_1 that toggles medir and leaves the sinks as they are
Tecla1Effect_NoClear ==
    /\ medir' = ~medir
    /\ UNCHANGED sinkVars
    /\ medir_cycle' = FALSE
    /\ stable' = FALSE
    /\ toggles' = [toggles EXCEPT !.medir = Flip(@)]
    /\ UNCHANGED <<hold, hold_cycle>>

\* tecla_1 that lights LED_1 when it enables measuring
Tecla1Effect_LightsOnEnable ==
    /\ medir' = ~medir
    /\ IF medir' = FALSE
       THEN leds' = LedsOffAll /\ lcd' = LcdItsE0803Off
       ELSE leds' = LedOn(leds, 1) /\ UNCHANGED lcd
    /\ medir_cycle' = FALSE
    /\ stable' = FALSE
    /\ toggles' = [toggles EXCEPT !.medir = Flip(@)]
    /\ UNCHANGED <<hold, hold_cycle>>

\* effect of tecla_1 on the flags and the sinks
Tecla1Effect ==
    /\ medir' = ~medir
    /\ IF medir' = FALSE
       THEN leds' = LedsOffAll /\ lcd' = LcdItsE0803Off
       ELSE UNCHANGED sinkVars
    /\ medir_cycle' = FALSE
    /\ stable' = FALSE
    /\ toggles' = [toggles EXCEPT !.medir = Flip(@)]
    /\ UNCHANGED <<hold, hold_cycle>>

\* tecla_2 that also blanks the LEDs and the LCD
Tecla2Effect_ClearsSinks ==
    /\ hold' = ~hold
    /\ leds' = LedsOffAll /\ lcd' = LcdItsE0803Off
    /\ hold_cycle' = FALSE
    /\ stable' = FALSE
    /\ toggles' = [toggles EXCEPT !.hold = Flip(@)]
    /\ UNCHANGED <<medir, medir_cycle>>

\* tecla_2 that sets hold instead of toggling it
Tecla2Effect_Set ==
    /\ hold' = TRUE
    /\ hold_cycle' = FALSE
    /\ stable' = FALSE
    /\ toggles' = [toggles EXCEPT !.hold = Flip(@)]
    /\ UNCHANGED <<medir, medir_cycle, sinkVars>>

\* effect of tecla_2 on the flags
Tecla2Effect ==
    /\ hold' = ~hold
    /\ hold_cycle' = FALSE
    /\ stable' = FALSE
    /\ toggles' = [toggles EXCEPT !.hold = Flip(@)]
    /\ UNCHANGED <<medir, medir_cycle, sinkVars>>

\* SWITCH_1 interrupt
tecla_1 ==
    /\ Tecla1Effect
    /\ UNCHANGED <<pulgadas, periodVars, uart_tx, notify, fires, workerVars,
                   f_run, analogVars, otherVars>>

\* SWITCH_2 interrupt
tecla_2 ==
    /\ Tecla2Effect
    /\ UNCHANGED <<pulgadas, periodVars, uart_tx, notify, fires, workerVars,
                   f_run, analogVars, otherVars>>

\* 'F' without its lower-bound test
PeriodAfterF_Unguarded(p) == p - TIEMPO_DE_LECTURA_STEP

\* 'F' tested against the wrong bound
PeriodAfterF_WrongBound(p) ==
    IF p < TIEMPO_DE_LECTURA_MAXIMO THEN p - TIEMPO_DE_LECTURA_STEP ELSE p

PeriodAfterF(p) ==
    IF p > TIEMPO_DE_LECTURA_MINIMO THEN p - TIEMPO_DE_LECTURA_STEP ELSE p

\* 'S' that adds two steps
PeriodAfterS_TwoSteps(p) ==
    IF p < TIEMPO_DE_LECTURA_MAXIMO THEN p + 2 * TIEMPO_DE_LECTURA_STEP ELSE p

PeriodAfterS(p) ==
    IF p < TIEMPO_DE_LECTURA_MAXIMO THEN p + TIEMPO_DE_LECTURA_STEP ELSE p

\* a branch of 'F'/'S' that changes the period and forgets the timer
TimerUpdatePeriodIf_Forgotten(taken_branch, p) == UNCHANGED <<hw_period, hw_updates>>

\* TimerUpdatePeriod(timer_medir.timer, p), called in the guarded branch only
TimerUpdatePeriodIf(taken_branch, p) ==
    IF taken_branch
    THEN hw_period' = p /\ hw_updates' = Flip(hw_updates)
    ELSE UNCHANGED <<hw_period, hw_updates>>

NoRun == 0 - 1

\* the run of consecutive 'F' commands that began at the maximum period
RunAfter(letra) ==
    f_run' = IF letra = "F" /\ f_run # NoRun /\ f_run < MaxRun THEN f_run + 1
             ELSE IF letra # "F" /\ period' = TIEMPO_DE_LECTURA_MAXIMO THEN 0
             ELSE NoRun

\* 'O' dispatched to the code of case 'H'
SwitchCase_OAsH(letra) ==
    IF letra = "O" THEN "H"
    ELSE IF letra \in {"H", "I", "M", "F", "S"} THEN letra ELSE "default"

\* 'M' without its break: control falls into case 'F'
SwitchCase_MFallsThrough(letra) ==
    IF letra = "M" THEN "F"
    ELSE IF letra \in {"O", "H", "I", "F", "S"} THEN letra ELSE "default"

\* the case label that switch (letra) selects
SwitchCase(letra) ==
    IF letra \in {"O", "H", "I", "M", "F", "S"} THEN letra ELSE "default"

\* switch (letra) { ... }
SwitchLetra(letra) ==
    /\ CASE SwitchCase(letra) = "O" ->
              /\ Tecla1Effect
              /\ UNCHANGED <<pulgadas, periodVars>>
         [] SwitchCase(letra) = "H" ->
              /\ Tecla2Effect
              /\ UNCHANGED <<pulgadas, periodVars>>
         [] SwitchCase(letra) = "I" ->
              /\ pulgadas' = ~pulgadas
              /\ stable' = FALSE
              /\ toggles' = [toggles EXCEPT !.pulgadas = Flip(@)]
              /\ UNCHANGED <<medir, hold, periodVars, sinkVars,
                             hold_cycle, medir_cycle>>
         [] SwitchCase(letra) = "M" ->
              UNCHANGED <<flagVars, periodVars, sinkVars,
                          hold_cycle, medir_cycle, stable, toggles>>
         [] SwitchCase(letra) = "F" ->
              /\ period' = PeriodAfterF(period)
              /\ TimerUpdatePeriodIf(period > TIEMPO_DE_LECTURA_MINIMO, period')
              /\ UNCHANGED <<flagVars, sinkVars, hold_cycle, medir_cycle, stable, toggles>>
         [] SwitchCase(letra) = "S" ->
              /\ period' = PeriodAfterS(period)
              /\ TimerUpdatePeriodIf(period < TIEMPO_DE_LECTURA_MAXIMO, period')
              /\ UNCHANGED <<flagVars, sinkVars, hold_cycle, medir_cycle, stable, toggles>>
         [] OTHER ->
              UNCHANGED <<flagVars, periodVars, sinkVars,
                          hold_cycle, medir_cycle, stable, toggles>>
    /\ RunAfter(letra)

\* UART_PC receive callback: read one byte, echo it, dispatch it
leer_teclado(letra) ==
    /\ uart_tx' = Echo(letra)
    /\ SwitchLetra(letra)
    /\ UNCHANGED <<notify, fires, workerVars, analogVars, otherVars>>

NoByte == "none"

\* the first half of leer_teclado without its UartSendByte
Teclado_ReadEcho_Silent(letra) ==
    /\ kb_letra = NoByte
    /\ kb_letra' = letra
    /\ UNCHANGED <<uart_tx, flagVars, periodVars, sinkVars, hold_cycle, medir_cycle, stable,
                   toggles, f_run, notify, fires, workerVars, analogVars, bootVars, bcdVars, flVars, pollVars, gpioVars,
                   kb_reg>>

\* leer_teclado up to its switch: UartReadByte, UartSendByte
Teclado_ReadEcho(letra) ==
    /\ kb_letra = NoByte
    /\ kb_letra' = letra
    /\ uart_tx' = Echo(letra)
    /\ UNCHANGED <<flagVars, periodVars, sinkVars, hold_cycle, medir_cycle, stable,
                   toggles, f_run, notify, fires, workerVars, analogVars, bootVars, bcdVars, flVars, pollVars, gpioVars,
                   kb_reg>>

\* leer_teclado from its switch to its return
Teclado_Switch ==
    /\ kb_letra # NoByte
    /\ SwitchLetra(kb_letra)
    /\ kb_letra' = NoByte
    /\ UNCHANGED <<uart_tx, notify, fires, workerVars, analogVars, bootVars, bcdVars, flVars, pollVars, gpioVars,
                   kb_reg>>

\* `medir = !medir` of tecla_1 (line 86) and `hold = !hold` of tecla_2 (line
\* 96) are a load, a negation and a store: when leer_teclado runs them for 'O'
\* and 'H', a button interrupt can run between the load and the store.
\* The load:
Teclado_Load ==
    /\ kb_letra \in {"O", "H"}
    /\ kb_reg = <<>>
    /\ kb_reg' = <<IF kb_letra = "O" THEN medir ELSE hold>>
    /\ UNCHANGED <<kb_letra, uart_tx, flagVars, periodVars, sinkVars, hold_cycle,
                   medir_cycle, stable, toggles, f_run, notify, fires, workerVars, analogVars,
                   bootVars, bcdVars, flVars, pollVars, gpioVars>>

\* tecla_1 from the store of `medir = !medir` on, the value loaded being v
Tecla1Store(v) ==
    /\ medir' = ~v
    /\ IF medir' = FALSE
       THEN leds' = LedsOffAll /\ lcd' = LcdItsE0803Off
       ELSE UNCHANGED sinkVars
    /\ medir_cycle' = FALSE
    /\ stable' = FALSE
    /\ toggles' = [toggles EXCEPT !.medir = Flip(@)]
    /\ UNCHANGED <<hold, hold_cycle>>

\* tecla_2 from the store of `hold = !hold` on, the value loaded being v
Tecla2Store(v) ==
    /\ hold' = ~v
    /\ hold_cycle' = FALSE
    /\ stable' = FALSE
    /\ toggles' = [toggles EXCEPT !.hold = Flip(@)]
    /\ UNCHANGED <<medir, medir_cycle, sinkVars>>

\* The store, the rest of the handler, and leer_teclado's return:
Teclado_Store ==
    /\ kb_reg # <<>>
    /\ IF kb_letra = "O" THEN Tecla1Store(kb_reg[1]) ELSE Tecla2Store(kb_reg[1])
    /\ kb_letra' = NoByte
    /\ kb_reg' = <<>>
    /\ UNCHANGED <<pulgadas, periodVars, uart_tx, f_run, notify, fires, workerVars, analogVars,
                   bootVars, bcdVars, flVars, pollVars, gpioVars>>

\* a worker whose every step releases hold
WorkerFrame_ClearsHold ==
    /\ hold' = FALSE
    /\ UNCHANGED <<medir, pulgadas, periodVars, toggles, f_run, fires, analogVars, otherVars>>

\* the part of the state a worker step of proyecto2_e3 never writes
WorkerFrame ==
    UNCHANGED <<flagVars, periodVars, toggles, f_run, fires, analogVars, otherVars>>

\* the take with xClearCountOnExit = pdFALSE: the value is decremented
Task_Take_Decrement ==
    /\ pc = "wait"
    /\ notify > 0
    /\ taken' = notify
    /\ notify' = notify - 1
    /\ cycles' = Count(cycles)
    /\ distancia' = 0
    /\ reads' = 0
    /\ unit_read' = "none"
    /\ lines' = 0
    /\ UNCHANGED uart_tx
    /\ hold_cycle' = hold
    /\ medir_cycle' = medir
    /\ stable' = TRUE
    /\ pc' = "if164_medir"
    /\ UNCHANGED sinkVars
    /\ WorkerFrame

\* the take with xTicksToWait = 0: it returns at once, notified or not
Task_Take_NoWait ==
    /\ pc = "wait"
    /\ taken' = notify
    /\ notify' = 0
    /\ cycles' = Count(cycles)
    /\ distancia' = 0
    /\ reads' = 0
    /\ unit_read' = "none"
    /\ lines' = 0
    /\ UNCHANGED uart_tx
    /\ hold_cycle' = hold
    /\ medir_cycle' = medir
    /\ stable' = TRUE
    /\ pc' = "if164_medir"
    /\ UNCHANGED sinkVars
    /\ WorkerFrame

\* ulTaskNotifyTake(pdTRUE, portMAX_DELAY); uint16_t distancia = 0;
Task_Take ==
    /\ pc = "wait"
    /\ notify > 0
    /\ taken' = notify
    /\ notify' = 0
    /\ cycles' = Count(cycles)
    /\ distancia' = 0
    /\ reads' = 0
    /\ unit_read' = "none"
    /\ lines' = 0
    /\ UNCHANGED uart_tx
    /\ hold_cycle' = hold
    /\ medir_cycle' = medir
    /\ stable' = TRUE
    /\ pc' = "if164_medir"
    /\ UNCHANGED sinkVars
    /\ WorkerFrame

\* a step of the worker that only moves it to position to
Goto(from, to) ==
    /\ pc = from
    /\ pc' = to
    /\ UNCHANGED <<distancia, taken, cycles, reads, unit_read, lines, notify, uart_tx, sinkVars,
                   hold_cycle, medir_cycle, stable>>
    /\ WorkerFrame

\* if (medir == true && pulgadas == false)
Task_If164_medir == Goto("if164_medir", IF medir THEN "if164_pulgadas" ELSE "if169_medir")

Task_If164_pulgadas == Goto("if164_pulgadas", IF ~pulgadas THEN "read_cm" ELSE "if169_medir")

\* else if (medir == true && pulgadas == true)
Task_If169_medir == Goto("if169_medir", IF medir THEN "if169_pulgadas" ELSE "if175_hold")

Task_If169_pulgadas == Goto("if169_pulgadas", IF pulgadas THEN "read_in" ELSE "if175_hold")

\* a sensor read that stores v in distancia
Read(from, v) ==
    /\ pc = from
    /\ distancia' = v
    /\ reads' = reads + 1
    /\ unit_read' = IF from = "read_cm" THEN "cm" ELSE "in"
    /\ pc' = "send_prefix"
    /\ UNCHANGED <<taken, cycles, lines, notify, uart_tx, sinkVars, hold_cycle, medir_cycle, stable>>
    /\ WorkerFrame

\* distancia = HcSr04ReadDistanceInCentimeters();
Task_ReadCm == \E d \in Distances : Read("read_cm", d)

\* the same read when the sensor may report any distance up to MaxDistance
Task_ReadCm_AnyDistance == \E d \in 0..MaxDistance : Read("read_cm", d)

\* distancia = HcSr04ReadDistanceInInches();
Task_ReadIn == \E d \in Distances : Read("read_in", InchesOf(d))

\* one UartSendString of mandar_distancia: item is what it sends, n the
\* number of lines it completes
Send(from, item, n, to) ==
    /\ pc = from
    /\ uart_tx' = item
    /\ lines' = lines + n
    /\ pc' = to
    /\ UNCHANGED <<distancia, taken, cycles, reads, unit_read, notify, sinkVars,
                   hold_cycle, medir_cycle, stable>>
    /\ WorkerFrame

\* mandar_distancia(distancia)
Task_SendPrefix == Send("send_prefix", Text("Distancia: "), 0, "send_number")

Task_SendNumber == Send("send_number", Number(distancia), 0, "send_suffix")

\* mandar_distancia that never looks at pulgadas
Task_SendSuffix_AlwaysCm == Send("send_suffix", Text(" cm\r\n"), 1, "if175_hold")

Task_SendSuffix ==
    Send("send_suffix",
         IF pulgadas = TRUE THEN Text(" in\r\n") ELSE Text(" cm\r\n"),
         1, "if175_hold")

\* a worker that waits at line 175 for hold to be released
Task_If175_hold_Waits ==
    Goto("if175_hold", IF hold = FALSE THEN "if175_medir" ELSE "if175_hold")

\* the render test without its hold operand
Task_If175_hold_Ignored == Goto("if175_hold", "if175_medir")

\* if (hold == false && medir == true)
Task_If175_hold == Goto("if175_hold", IF hold = FALSE THEN "if175_medir" ELSE "wait")

Task_If175_medir == Goto("if175_medir", IF medir THEN "leds" ELSE "wait")

\* encenderLedSegunDistancia(distancia);
Task_Leds ==
    /\ pc = "leds"
    /\ leds' = encenderLedSegunDistancia(distancia, leds)
    /\ pc' = "lcd"
    /\ UNCHANGED <<lcd, distancia, taken, cycles, reads, unit_read, lines, notify, uart_tx,
                   hold_cycle, medir_cycle, stable>>
    /\ WorkerFrame

\* LcdItsE0803Write(distancia);
Task_Lcd ==
    /\ pc = "lcd"
    /\ lcd' = LcdItsE0803Write(distancia)
    /\ pc' = "wait"
    /\ UNCHANGED <<leds, distancia, taken, cycles, reads, unit_read, lines, notify, uart_tx,
                   hold_cycle, medir_cycle, stable>>
    /\ WorkerFrame

Medir_MostrarPantalla_Task ==
    \/ Task_Take
    \/ Task_If164_medir
    \/ Task_If164_pulgadas
    \/ Task_If169_medir
    \/ Task_If169_pulgadas
    \/ Task_ReadCm
    \/ Task_ReadIn
    \/ Task_SendPrefix
    \/ Task_SendNumber
    \/ Task_SendSuffix
    \/ Task_If175_hold
    \/ Task_If175_medir
    \/ Task_Leds
    \/ Task_Lcd

(*----------------------------- analog I/O --------------------------------*)
test_signal == [i \in 0..(SIGNAL_SIZE - 1) |-> i + 1]

\* value of a uint16_t returned through the char return type
ToChar(v) == v % 256

\* the cursor without its wrap
NextIndex_NoWrap(i) == i + 1

\* the cursor wrapping one element early
NextIndex_EarlyWrap(i) == IF i < SIGNAL_SIZE - 2 THEN i + 1 ELSE 0

NextIndex(i) == IF i < SIGNAL_SIZE - 1 THEN i + 1 ELSE 0

\* char sampleSignal(void): new signal_value, new sample_index, returned value
sampleSignal ==
    [signal_value |-> test_signal[sample_index],
     sample_index |-> NextIndex(sample_index),
     ret |-> ToChar(test_signal[sample_index])]

\* Timer A callback
analogReadAndSend ==
    /\ notify_r < MaxNotify
    /\ notify_r' = notify_r + 1
    /\ UNCHANGED <<flagVars, periodVars, sinkVars, uart_tx, notify, fires, workerVars,
                   hold_cycle, medir_cycle, stable, toggles, f_run,
                   sample_index, signal_value, notify_w, dac_out, readVars, otherVars>>

\* a Timer B callback that writes the next sample itself
analogWrite_WritesSample ==
    /\ notify_w < MaxNotify
    /\ Len(dac_out) < MaxSamples
    /\ notify_w' = notify_w + 1
    /\ signal_value' = sampleSignal.signal_value
    /\ sample_index' = sampleSignal.sample_index
    /\ dac_out' = Append(dac_out, sampleSignal.ret)
    /\ UNCHANGED <<flagVars, periodVars, sinkVars, uart_tx, notify, fires, workerVars,
                   hold_cycle, medir_cycle, stable, toggles, f_run, notify_r, readVars,
                   otherVars>>

\* Timer B callback
analogWrite ==
    /\ notify_w < MaxNotify
    /\ notify_w' = notify_w + 1
    /\ UNCHANGED <<flagVars, periodVars, sinkVars, uart_tx, notify, fires, workerVars,
                   hold_cycle, medir_cycle, stable, toggles, f_run,
                   sample_index, signal_value, notify_r, dac_out, readVars, otherVars>>

\* one cycle of analogWriteTask: take, AnalogOutputWrite(sampleSignal())
analogWriteTask ==
    /\ notify_w > 0
    /\ Len(dac_out) < MaxSamples
    /\ notify_w' = 0
    /\ signal_value' = sampleSignal.signal_value
    /\ sample_index' = sampleSignal.sample_index
    /\ dac_out' = Append(dac_out, sampleSignal.ret)
    /\ UNCHANGED <<flagVars, periodVars, sinkVars, uart_tx, notify, fires, workerVars,
                   hold_cycle, medir_cycle, stable, toggles, f_run, notify_r, readVars,
                   otherVars>>

\* the part of the state analogReadAndSendTask never writes
ReadTaskFrame ==
    UNCHANGED <<flagVars, periodVars, sinkVars, notify, fires, workerVars,
                hold_cycle, medir_cycle, stable, toggles, f_run,
                sample_index, signal_value, notify_w, dac_out, otherVars>>

\* a read task that also steps the replay cursor
ReadTask_Take_StepsCursor ==
    /\ ar_pc = "wait"
    /\ notify_r > 0
    /\ notify_r' = 0
    /\ ar_pc' = "read"
    /\ sample_index' = NextIndex(sample_index)
    /\ UNCHANGED <<adc_value, uart_tx>>
    /\ UNCHANGED <<flagVars, periodVars, sinkVars, notify, fires, workerVars,
                   hold_cycle, medir_cycle, stable, toggles, f_run,
                   signal_value, notify_w, dac_out, otherVars>>

\* ulTaskNotifyTake(pdTRUE, portMAX_DELAY);
ReadTask_Take ==
    /\ ar_pc = "wait"
    /\ notify_r > 0
    /\ notify_r' = 0
    /\ ar_pc' = "read"
    /\ UNCHANGED <<adc_value, uart_tx>>
    /\ ReadTaskFrame

\* AnalogInputReadSingle(ADC_CHANNEL, &adc_value);
ReadTask_Read ==
    /\ ar_pc = "read"
    /\ \E v \in AdcValues : adc_value' = v
    /\ ar_pc' = "send_tag"
    /\ UNCHANGED <<notify_r, uart_tx>>
    /\ ReadTaskFrame

\* one UartSendString of analogReadAndSendTask
ReadTask_Send(from, item, to) ==
    /\ ar_pc = from
    /\ uart_tx' = item
    /\ ar_pc' = to
    /\ UNCHANGED <<notify_r, adc_value>>
    /\ ReadTaskFrame

ReadTask_SendTag == ReadTask_Send("send_tag", Text(">analog_voltage:"), "send_value")

ReadTask_SendValue == ReadTask_Send("send_value", Number(adc_value), "send_eol")

ReadTask_SendEol == ReadTask_Send("send_eol", Text("\r\n"), "wait")

analogReadAndSendTask ==
    \/ ReadTask_Take
    \/ ReadTask_Read
    \/ ReadTask_SendTag
    \/ ReadTask_SendValue
    \/ ReadTask_SendEol

(*------------------------------ proyecto2_e1 -----------------------------*)
Switches == {"SWITCH_1", "SWITCH_2"}

\* the flag each switch toggles
FlagOf(sw) == IF sw = "SWITCH_1" THEN "medir" ELSE "hold"

\* SwitchesRead(): the switches that are down when it is called
SwitchesRead == sw_down

PollFrame ==
    UNCHANGED <<pulgadas, periodVars, uart_tx, notify, fires, workerVars, f_run,
                analogVars, bootVars, kbVars, bcdVars, flVars, gpioVars>>

\* the user presses a switch
SwitchPress(sw) ==
    /\ sw \notin sw_down
    /\ sw_down' = sw_down \cup {sw}
    /\ press_toggles' = [press_toggles EXCEPT ![FlagOf(sw)] = 0]
    /\ UNCHANGED <<flagVars, sinkVars, hold_cycle, medir_cycle, stable, toggles>>
    /\ PollFrame

\* the user releases it
SwitchRelease(sw) ==
    /\ sw \in sw_down
    /\ sw_down' = sw_down \ {sw}
    /\ UNCHANGED <<press_toggles, flagVars, sinkVars, hold_cycle, medir_cycle, stable,
                   toggles>>
    /\ PollFrame

\* one iteration of Teclas_Task, every CONFIG_READING_PERIOD ms
Teclas_Task ==
    /\ \A sw \in sw_down : press_toggles[FlagOf(sw)] < MaxPolls
    /\ IF SwitchesRead = {"SWITCH_1"}
       THEN Tecla1Effect /\ press_toggles' = [press_toggles EXCEPT !.medir = @ + 1]
       ELSE IF SwitchesRead = {"SWITCH_2"}
       THEN Tecla2Effect /\ press_toggles' = [press_toggles EXCEPT !.hold = @ + 1]
       ELSE UNCHANGED <<flagVars, sinkVars, hold_cycle, medir_cycle, stable, toggles,
                        press_toggles>>
    /\ UNCHANGED sw_down
    /\ PollFrame

(*------------------------------- app_main --------------------------------*)
Programs == {"proyecto2_e2", "proyecto2_e3", "analog"}

\* proyecto2_e3 starting its timer before it creates the worker
app_main_e3_TimerFirst ==
    << <<"LedsInit", "">>, <<"LcdItsE0803Init", "">>, <<"HcSr04Init", "">>,
       <<"SwitchesInit", "">>, <<"TimerInit", "TIMER_A">>, <<"UartInit", "">>,
       <<"SwitchActivInt", "SWITCH_1">>, <<"SwitchActivInt", "SWITCH_2">>,
       <<"TimerStart", "TIMER_A">>,
       <<"xTaskCreate", "Medir_MostrarPantalla_Task">> >>

\* the calls of app_main, in program order
app_main_e3 ==
    << <<"LedsInit", "">>, <<"LcdItsE0803Init", "">>, <<"HcSr04Init", "">>,
       <<"SwitchesInit", "">>, <<"TimerInit", "TIMER_A">>, <<"UartInit", "">>,
       <<"SwitchActivInt", "SWITCH_1">>, <<"SwitchActivInt", "SWITCH_2">>,
       <<"xTaskCreate", "Medir_MostrarPantalla_Task">>,
       <<"TimerStart", "TIMER_A">> >>

app_main_e2 ==
    << <<"LedsInit", "">>, <<"LcdItsE0803Init", "">>, <<"HcSr04Init", "">>,
       <<"SwitchesInit", "">>, <<"TimerInit", "TIMER_A">>,
       <<"SwitchActivInt", "SWITCH_1">>, <<"SwitchActivInt", "SWITCH_2">>,
       <<"xTaskCreate", "Medir_MostrarPantalla_Task">>,
       <<"TimerStart", "TIMER_A">> >>

app_main_analog ==
    << <<"AnalogInputInit", "">>, <<"AnalogOutputInit", "">>, <<"UartInit", "">>,
       <<"xTaskCreate", "analogReadAndSendTask">>,
       <<"xTaskCreate", "analogWriteTask">>,
       <<"TimerInit", "TIMER_A">>, <<"TimerStart", "TIMER_A">>,
       <<"TimerInit", "TIMER_B">>, <<"TimerStart", "TIMER_B">> >>

app_main(p) ==
    CASE p = "proyecto2_e3" -> app_main_e3
      [] p = "proyecto2_e2" -> app_main_e2
      [] OTHER -> app_main_analog

\* the task whose handle the callback (func_p) of timer t notifies
NotifiedTask(p, t) ==
    IF p = "analog"
    THEN (IF t = "TIMER_A" THEN "analogReadAndSendTask" ELSE "analogWriteTask")
    ELSE "Medir_MostrarPantalla_Task"

\* the arguments of the calls to function f among the given calls
ArgsOf(calls, f) == {calls[i][2] : i \in {j \in 1..Len(calls) : calls[j][1] = f}}

\* app_main of program p has returned
Booted(p) ==
    /\ prog = p
    /\ main_pc = Len(app_main(p))
    /\ handles = ArgsOf(app_main(p), "xTaskCreate")
    /\ timers = ArgsOf(app_main(p), "TimerStart")
    /\ lost = FALSE

e3Vars == <<flagVars, periodVars, sinkVars, uart_tx, notify, fires, workerVars,
            hold_cycle, medir_cycle, stable, toggles, f_run>>

\* app_main runs its next call
AppMainStep ==
    /\ main_pc < Len(app_main(prog))
    /\ main_pc' = main_pc + 1
    /\ handles' = handles \cup ArgsOf(<<app_main(prog)[main_pc + 1]>>, "xTaskCreate")
    /\ timers' = timers \cup ArgsOf(<<app_main(prog)[main_pc + 1]>>, "TimerStart")
    /\ UNCHANGED <<prog, lost, kbVars, e3Vars, analogVars, bcdVars, flVars, pollVars, gpioVars>>

\* a started timer fires: its callback gives a notification to the handle,
\* which is lost when the handle is still NULL
TimerFires(t) ==
    /\ t \in timers
    /\ IF NotifiedTask(prog, t) \in handles
       THEN CASE prog = "analog" /\ t = "TIMER_A" -> analogReadAndSend
              [] prog = "analog" /\ t = "TIMER_B" -> analogWrite
              [] OTHER -> Medir_MostrarPantalla
       ELSE /\ lost' = TRUE
            /\ UNCHANGED <<prog, main_pc, handles, timers, kbVars, e3Vars,
                           analogVars, bcdVars, flVars, pollVars, gpioVars>>

\* a created task runs
TaskRuns ==
    \/ /\ prog = "proyecto2_e3"
       /\ "Medir_MostrarPantalla_Task" \in handles
       /\ Medir_MostrarPantalla_Task
    \/ /\ prog = "analog"
       /\ "analogWriteTask" \in handles
       /\ analogWriteTask
    \/ /\ prog = "analog"
       /\ "analogReadAndSendTask" \in handles
       /\ analogReadAndSendTask

(*------------------------- ejercicio_4_proyecto_1 ------------------------*)
\* content of a byte of bcd_number that has not been written
Unwritten == 255

\* the memory at bcd_number: the array and the byte that follows the
\* longest array
BcdCells == 0..MaxDigits

BcdFrame == UNCHANGED <<e3Vars, analogVars, bootVars, kbVars, flVars, pollVars, gpioVars>>

\* for (int i = digits - 1; ...
Bcd_ForInit ==
    /\ bcd_pc = "call"
    /\ bcd_i' = digits - 1
    /\ bcd_pc' = "for"
    /\ UNCHANGED <<data, digits, bcd_number, data_in, bcd_written>>
    /\ BcdFrame

\* the loop body filling the array from its first element
Bcd_ForBody_LsdFirst ==
    /\ bcd_pc = "for"
    /\ bcd_i >= 0
    /\ bcd_number' = [bcd_number EXCEPT ![digits - 1 - bcd_i] = data % 10]
    /\ bcd_written' = bcd_written \cup {digits - 1 - bcd_i}
    /\ data' = data \div 10
    /\ bcd_i' = bcd_i - 1
    /\ UNCHANGED <<digits, bcd_pc, data_in>>
    /\ BcdFrame

\* i >= 0: bcd_number[i] = data % 10; data /= 10; i--
Bcd_ForBody ==
    /\ bcd_pc = "for"
    /\ bcd_i >= 0
    /\ bcd_number' = [bcd_number EXCEPT ![bcd_i] = data % 10]
    /\ bcd_written' = bcd_written \cup {bcd_i}
    /\ data' = data \div 10
    /\ bcd_i' = bcd_i - 1
    /\ UNCHANGED <<digits, bcd_pc, data_in>>
    /\ BcdFrame

\* i < 0: return 0
Bcd_Return ==
    /\ bcd_pc = "for"
    /\ bcd_i < 0
    /\ bcd_pc' = "return"
    /\ UNCHANGED <<data, digits, bcd_number, bcd_i, data_in, bcd_written>>
    /\ BcdFrame

convertToBcdArray == Bcd_ForInit \/ Bcd_ForBody \/ Bcd_Return

\* convertToBcdArray is not running: the arguments app_main would pass
BcdIdle ==
    /\ data = numero_a_mostrar
    /\ digits = digitos_del_LCD
    /\ data_in = numero_a_mostrar
    /\ bcd_number = [k \in BcdCells |-> Unwritten]
    /\ bcd_i = 0
    /\ bcd_pc = "idle"
    /\ bcd_written = {}

\* the data pins b0..b3 and the selector pins of the digits
DataPins == 0..3
SelPins == 0..(MaxDigits - 1)

\* GPIOInit(pin, dir): the pin is configured, its level is as it was
GPIOInit(levels, k) == levels
GPIOOn(levels, k) == [levels EXCEPT ![k] = TRUE]
GPIOOff(levels, k) == [levels EXCEPT ![k] = FALSE]

\* (bcd_digit >> i) & 0001
BitVal(d, i) == (d \div (2 ^ i)) % 2

\* the part of the state setGpioFromBcd never writes
SgFrame ==
    UNCHANGED <<e3Vars, analogVars, bootVars, kbVars, bcdVars, flVars, pollVars,
                gpio_sel, dn_pc, dn_i, bcd_digit>>

\* first loop: i < 4: GPIOInit(gpio_array[i].pin, gpio_array[i].dir); i++
Sg_Init ==
    /\ sg_pc = "init"
    /\ sg_i < 4
    /\ gpio_data' = GPIOInit(gpio_data, sg_i)
    /\ sg_i' = sg_i + 1
    /\ UNCHANGED sg_pc
    /\ SgFrame

\* first loop left, second loop entered
Sg_InitDone ==
    /\ sg_pc = "init"
    /\ sg_i = 4
    /\ sg_pc' = "bits"
    /\ sg_i' = 0
    /\ UNCHANGED gpio_data
    /\ SgFrame

\* the second loop testing bit 3 - i of the digit
Sg_Bit_MsbFirst ==
    /\ sg_pc = "bits"
    /\ sg_i < 4
    /\ gpio_data' = IF BitVal(bcd_digit, 3 - sg_i) = 1
                    THEN GPIOOn(gpio_data, sg_i)
                    ELSE GPIOOff(gpio_data, sg_i)
    /\ sg_i' = sg_i + 1
    /\ UNCHANGED sg_pc
    /\ SgFrame

\* second loop: i < 4: bit_val == 1 ? GPIOOn : GPIOOff on gpio_array[i]; i++
Sg_Bit ==
    /\ sg_pc = "bits"
    /\ sg_i < 4
    /\ gpio_data' = IF BitVal(bcd_digit, sg_i) = 1
                    THEN GPIOOn(gpio_data, sg_i)
                    ELSE GPIOOff(gpio_data, sg_i)
    /\ sg_i' = sg_i + 1
    /\ UNCHANGED sg_pc
    /\ SgFrame

Sg_Return ==
    /\ sg_pc = "bits"
    /\ sg_i = 4
    /\ sg_pc' = "return"
    /\ UNCHANGED <<gpio_data, sg_i>>
    /\ SgFrame

setGpioFromBcd == Sg_Init \/ Sg_InitDone \/ Sg_Bit \/ Sg_Return

\* the part of the state the statements of displayNumber never write
DnFrame ==
    UNCHANGED <<e3Vars, analogVars, bootVars, kbVars, bcdVars, flVars, pollVars>>

\* convertToBcdArray has returned: for (int j = 0; ...
Dn_ClearInit ==
    /\ dn_pc = "convert"
    /\ bcd_pc = "return"
    /\ dn_pc' = "clear"
    /\ dn_i' = 0
    /\ UNCHANGED <<gpio_data, gpio_sel, sg_pc, sg_i, bcd_digit>>
    /\ DnFrame

\* j < digits: GPIOInit(digit_array[j]...); GPIOOff(digit_array[j].pin); j++
Dn_Clear ==
    /\ dn_pc = "clear"
    /\ dn_i < digits
    /\ gpio_sel' = GPIOOff(GPIOInit(gpio_sel, dn_i), dn_i)
    /\ dn_i' = dn_i + 1
    /\ UNCHANGED <<gpio_data, dn_pc, sg_pc, sg_i, bcd_digit>>
    /\ DnFrame

\* first loop left: for (int i = 0; ...
Dn_ClearDone ==
    /\ dn_pc = "clear"
    /\ dn_i = digits
    /\ dn_pc' = "digit"
    /\ dn_i' = 0
    /\ UNCHANGED <<gpio_data, gpio_sel, sg_pc, sg_i, bcd_digit>>
    /\ DnFrame

\* i < digits: the call setGpioFromBcd(bcd_digits[i], gpio_array)
Dn_Load ==
    /\ dn_pc = "digit"
    /\ dn_i < digits
    /\ bcd_digit' = bcd_number[dn_i]
    /\ sg_pc' = "init"
    /\ sg_i' = 0
    /\ dn_pc' = "load"
    /\ UNCHANGED <<gpio_data, gpio_sel, dn_i>>
    /\ DnFrame

\* a displayNumber that selects the digit before it loads the data lines
Dn_SelOn_BeforeLoad ==
    /\ dn_pc = "load"
    /\ sg_pc \in {"init", "return"}
    /\ gpio_sel' = GPIOOn(gpio_sel, dn_i)
    /\ dn_pc' = "on"
    /\ UNCHANGED <<gpio_data, dn_i, sg_pc, sg_i, bcd_digit>>
    /\ DnFrame

\* setGpioFromBcd has returned: GPIOOn(digit_array[i].pin)
Dn_SelOn ==
    /\ dn_pc = "load"
    /\ sg_pc = "return"
    /\ gpio_sel' = GPIOOn(gpio_sel, dn_i)
    /\ dn_pc' = "on"
    /\ UNCHANGED <<gpio_data, dn_i, sg_pc, sg_i, bcd_digit>>
    /\ DnFrame

\* GPIOOff(digit_array[i].pin); i++
Dn_SelOff ==
    /\ dn_pc = "on"
    /\ sg_pc = "return"
    /\ gpio_sel' = GPIOOff(gpio_sel, dn_i)
    /\ dn_i' = dn_i + 1
    /\ dn_pc' = "digit"
    /\ UNCHANGED <<gpio_data, sg_pc, sg_i, bcd_digit>>
    /\ DnFrame

\* second loop left: displayNumber returns
Dn_Return ==
    /\ dn_pc = "digit"
    /\ dn_i = digits
    /\ dn_pc' = "return"
    /\ UNCHANGED <<gpio_data, gpio_sel, dn_i, sg_pc, sg_i, bcd_digit>>
    /\ DnFrame

displayNumber ==
    \/ convertToBcdArray
    \/ Dn_ClearInit
    \/ Dn_Clear
    \/ Dn_ClearDone
    \/ Dn_Load
    \/ setGpioFromBcd
    \/ Dn_SelOn
    \/ Dn_SelOff
    \/ Dn_Return

\* neither displayNumber nor setGpioFromBcd is running; the pins are as the
\* reset of the chip leaves them
GpioIdle ==
    /\ gpio_data = [k \in DataPins |-> FALSE]
    /\ gpio_sel = [k \in SelPins |-> FALSE]
    /\ dn_pc = "idle"
    /\ dn_i = 0
    /\ sg_pc = "idle"
    /\ sg_i = 0
    /\ bcd_digit = 0

(*------------------------- ejercicio_3_proyecto_1 ------------------------*)
Modes == {OFF, ON, TOGGLE}

FlFrame ==
    UNCHANGED <<flagVars, periodVars, lcd, uart_tx, notify, fires, workerVars,
                hold_cycle, medir_cycle, stable, toggles, f_run,
                analogVars, bootVars, kbVars, bcdVars, pollVars, gpioVars>>

\* a step of function_leds that calls the LED driver: f is the function
\* called on the selected LED, to the position reached
FlLedCall(from, f, after, to) ==
    /\ fl_pc = from
    /\ leds' = after
    /\ led_calls' = Append(led_calls, <<f, my_leds.n_led>>)
    /\ fl_pc' = to
    /\ UNCHANGED <<my_leds, fl_i, fl_j>>
    /\ FlFrame

\* switch (ptr->mode)
Fl_Switch ==
    /\ fl_pc = "switch"
    /\ fl_pc' = CASE my_leds.mode = ON -> "case_ON"
                  [] my_leds.mode = OFF -> "case_OFF"
                  [] my_leds.mode = TOGGLE -> "case_TOGGLE"
                  [] OTHER -> "return"
    /\ UNCHANGED <<leds, my_leds, fl_i, fl_j, led_calls>>
    /\ FlFrame

\* case ON: LedOn of the selected LED; no break follows the inner switch
Fl_CaseOn ==
    FlLedCall("case_ON", "LedOn", LedOn(leds, my_leds.n_led), "case_OFF")

\* case OFF: LedOff of the selected LED; no break follows the inner switch
Fl_CaseOff ==
    FlLedCall("case_OFF", "LedOff", LedOff(leds, my_leds.n_led), "case_TOGGLE")

\* case TOGGLE: for (int i = 0; ...
Fl_ForInit ==
    /\ fl_pc = "case_TOGGLE"
    /\ fl_i' = 0
    /\ fl_pc' = "for"
    /\ UNCHANGED <<leds, my_leds, fl_j, led_calls>>
    /\ FlFrame

\* i < ptr->n_ciclos
Fl_ForTest ==
    /\ fl_pc = "for"
    /\ fl_pc' = IF fl_i < my_leds.n_ciclos THEN "toggle" ELSE "return"
    /\ UNCHANGED <<leds, my_leds, fl_i, fl_j, led_calls>>
    /\ FlFrame

\* LedToggle of the selected LED; for (uint8_t i = 0; ...
Fl_Toggle ==
    /\ fl_pc = "toggle"
    /\ leds' = LedToggle(leds, my_leds.n_led)
    /\ fl_j' = 0
    /\ led_calls' = Append(led_calls, <<"LedToggle", my_leds.n_led>>)
    /\ fl_pc' = "delay"
    /\ UNCHANGED <<my_leds, fl_i>>
    /\ FlFrame

\* i < ptr->periodo: vTaskDelay, i++ (uint8_t); otherwise the next cycle
Fl_Delay ==
    /\ fl_pc = "delay"
    /\ IF fl_j < my_leds.periodo
       THEN fl_j' = (fl_j + 1) % 256 /\ UNCHANGED <<fl_i, fl_pc>>
       ELSE fl_i' = fl_i + 1 /\ fl_pc' = "for" /\ UNCHANGED fl_j
    /\ UNCHANGED <<leds, my_leds, led_calls>>
    /\ FlFrame

function_leds ==
    \/ Fl_Switch
    \/ Fl_CaseOn
    \/ Fl_CaseOff
    \/ Fl_ForInit
    \/ Fl_ForTest
    \/ Fl_Toggle
    \/ Fl_Delay

\* function_leds is not running: the struct app_main fills in
FlIdle ==
    /\ my_leds = [mode |-> TOGGLE, n_led |-> 2, n_ciclos |-> 10, periodo |-> 5]
    /\ fl_pc = "idle"
    /\ fl_i = 0
    /\ fl_j = 0
    /\ led_calls = <<>>

(*--------------------------- specifications ------------------------------*)
\* initial values of the globals, timer_medir.period being p
\* the timer callbacks and the worker cycles are not counted
Uncounted == fires = NotCounted /\ cycles = NotCounted

Globals(p) ==
    /\ medir = TRUE
    /\ hold = FALSE
    /\ pulgadas = FALSE
    /\ period = p
    /\ hw_period = p
    /\ hw_updates = 0
    /\ leds = LedsOffAll
    /\ lcd = LcdItsE0803Off
    /\ uart_tx = NoItem
    /\ notify = 0
    /\ pc = "wait"
    /\ distancia = 0
    /\ taken = 0
    /\ reads = 0
    /\ unit_read = "none"
    /\ lines = 0
    /\ hold_cycle = FALSE
    /\ medir_cycle = FALSE
    /\ stable = FALSE
    /\ toggles = [medir |-> 0, hold |-> 0, pulgadas |-> 0]
    /\ f_run = IF p = TIEMPO_DE_LECTURA_MAXIMO THEN 0 ELSE NoRun
    /\ sample_index = 0
    /\ signal_value = 0
    /\ notify_w = 0
    /\ notify_r = 0
    /\ dac_out = <<>>
    /\ adc_value = 0
    /\ ar_pc = "wait"
    /\ kb_letra = NoByte
    /\ kb_reg = <<>>
    /\ sw_down = {}
    /\ press_toggles = [medir |-> 0, hold |-> 0]

\* proyecto2_e3 when app_main has returned
InitAt(p) ==
    Globals(p) /\ Uncounted /\ Booted("proyecto2_e3") /\ BcdIdle /\ FlIdle /\ GpioIdle

Init == InitAt(CONFIG_MEASURE_PERIOD)

\* the period after 10000 'S' commands
InitAtMax == InitAt(TIEMPO_DE_LECTURA_MAXIMO)

InWindow(p) ==
    /\ p >= CONFIG_MEASURE_PERIOD - MaxDrift * TIEMPO_DE_LECTURA_STEP
    /\ p <= CONFIG_MEASURE_PERIOD + MaxDrift * TIEMPO_DE_LECTURA_STEP

Command == \E letra \in Bytes : leer_teclado(letra) /\ InWindow(period')

Next ==
    \/ Medir_MostrarPantalla
    \/ tecla_1
    \/ tecla_2
    \/ Command
    \/ Medir_MostrarPantalla_Task

Spec == Init /\ [][Next]_vars

PeriodCommand == \E letra \in PeriodCmds : leer_teclado(letra)

NextPeriod == PeriodCommand

SpecPeriod == Init /\ [][NextPeriod]_vars

SpecAtMax == InitAtMax /\ [][NextPeriod]_vars

\* the period a byte leaves behind
PeriodAfter(letra, p) ==
    IF letra = "F" THEN PeriodAfterF(p)
    ELSE IF letra = "S" THEN PeriodAfterS(p)
    ELSE p

\* leer_teclado in two steps, between which the buttons may interrupt
NextEcho ==
    \/ \E letra \in Bytes :
          Teclado_ReadEcho(letra) /\ InWindow(PeriodAfter(letra, period))
    \/ Teclado_Switch
    \/ tecla_1
    \/ tecla_2

SpecEcho == Init /\ [][NextEcho]_vars

\* leer_teclado receiving 'O' and 'H', the negation of the flag in two steps,
\* the buttons interrupting anywhere
NextRmw ==
    \/ \E letra \in {"O", "H"} : Teclado_ReadEcho(letra)
    \/ Teclado_Load
    \/ Teclado_Store
    \/ tecla_1
    \/ tecla_2

SpecRmw == Init /\ [][NextRmw]_vars

\* proyecto2_e1: the user at the two switches and the polling task
NextPolling ==
    \/ \E sw \in Switches : SwitchPress(sw)
    \/ \E sw \in Switches : SwitchRelease(sw)
    \/ Teclas_Task

SpecPolling == Init /\ [][NextPolling]_vars

\* proyecto2_e3 with its timer callbacks and its worker cycles counted, until
\* the timer has fired MaxFires times
InitFires ==
    /\ Globals(CONFIG_MEASURE_PERIOD)
    /\ fires = 0
    /\ cycles = 0
    /\ Booted("proyecto2_e3")
    /\ BcdIdle
    /\ FlIdle
    /\ GpioIdle

NextFires ==
    \/ Medir_MostrarPantalla /\ fires < MaxFires
    \/ tecla_1
    \/ tecla_2
    \/ \E letra \in {"O", "H", "I"} : leer_teclado(letra)
    \/ Medir_MostrarPantalla_Task

SpecFires == InitFires /\ [][NextFires]_vars

\* the timer, the buttons, the commands that write a flag, and the worker
NextLive ==
    \/ Medir_MostrarPantalla
    \/ tecla_1
    \/ tecla_2
    \/ \E letra \in {"O", "H", "I"} : leer_teclado(letra)
    \/ Medir_MostrarPantalla_Task

\* proyecto2_e3 with a worker that is scheduled whenever it is ready to run:
\* the task is created at priority 5 and nothing else in the program holds
\* the processor (the handlers return, the main task ends)
SpecLive == Init /\ [][NextLive]_vars /\ WF_vars(Medir_MostrarPantalla_Task)

\* the same with the timer running: timer_medir is periodic and is started by
\* app_main (line 202), so its callback keeps being called
SpecRun == SpecLive /\ WF_vars(Medir_MostrarPantalla)

\* timer and worker alone, in centimetres, over every distance
NextLeds ==
    \/ Medir_MostrarPantalla
    \/ Task_Take
    \/ Task_If164_medir
    \/ Task_If164_pulgadas
    \/ Task_ReadCm_AnyDistance
    \/ Task_SendPrefix
    \/ Task_SendNumber
    \/ Task_SendSuffix
    \/ Task_If175_hold
    \/ Task_If175_medir
    \/ Task_Leds
    \/ Task_Lcd

SpecLeds == Init /\ [][NextLeds]_vars

\* a program that creates no task and starts no timer
NoTasks(p) ==
    /\ prog = p
    /\ main_pc = 0
    /\ handles = {}
    /\ timers = {}
    /\ lost = FALSE

\* a call convertToBcdArray(data, digits, bcd_number) with any arguments
InitBcd ==
    /\ Globals(CONFIG_MEASURE_PERIOD)
    /\ Uncounted
    /\ NoTasks("ejercicio_4_proyecto_1")
    /\ data \in 0..MaxData
    /\ digits \in 0..MaxDigits
    /\ data_in = data
    /\ bcd_number = [k \in BcdCells |-> Unwritten]
    /\ bcd_i = 0
    /\ bcd_pc = "call"
    /\ bcd_written = {}
    /\ FlIdle
    /\ GpioIdle

NextBcd == convertToBcdArray

SpecBcd == InitBcd /\ [][NextBcd]_vars

\* a call displayNumber(data, digits, gpio_array, digit_array) with any
\* number and any positive number of digits, digit_array having digits
\* elements, the pins as the reset of the chip and GPIOInit leave them
InitDisplay ==
    /\ Globals(CONFIG_MEASURE_PERIOD)
    /\ Uncounted
    /\ NoTasks("ejercicio_4_proyecto_1")
    /\ data \in 0..MaxData
    /\ digits \in 1..MaxDigits
    /\ data_in = data
    /\ bcd_number = [k \in BcdCells |-> Unwritten]
    /\ bcd_i = 0
    /\ bcd_pc = "call"
    /\ bcd_written = {}
    /\ gpio_data = [k \in DataPins |-> FALSE]
    /\ gpio_sel = [k \in SelPins |-> FALSE]
    /\ dn_pc = "convert"
    /\ dn_i = 0
    /\ sg_pc = "idle"
    /\ sg_i = 0
    /\ bcd_digit = 0
    /\ FlIdle

NextDisplay == displayNumber

SpecDisplay == InitDisplay /\ [][NextDisplay]_vars

\* a call setGpioFromBcd(bcd_digit, gpio_array) with any digit, the four
\* pins at any levels
InitGpio ==
    /\ Globals(CONFIG_MEASURE_PERIOD)
    /\ Uncounted
    /\ NoTasks("ejercicio_4_proyecto_1")
    /\ BcdIdle
    /\ gpio_data \in [DataPins -> BOOLEAN]
    /\ gpio_sel = [k \in SelPins |-> FALSE]
    /\ dn_pc = "idle"
    /\ dn_i = 0
    /\ bcd_digit \in 0..9
    /\ sg_pc = "init"
    /\ sg_i = 0
    /\ FlIdle

NextGpio == setGpioFromBcd

SpecGpio == InitGpio /\ [][NextGpio]_vars

\* a call function_leds(&my_leds) with any mode, LED, n_ciclos and periodo,
\* the LEDs being off as LedsInit leaves them
InitFunctionLeds ==
    /\ Globals(CONFIG_MEASURE_PERIOD)
    /\ Uncounted
    /\ NoTasks("ejercicio_3_proyecto_1")
    /\ BcdIdle
    /\ GpioIdle
    /\ my_leds \in [mode : Modes, n_led : 1..3,
                     n_ciclos : 0..MaxCiclos, periodo : 0..MaxPeriodo]
    /\ fl_pc = "switch"
    /\ fl_i = 0
    /\ fl_j = 0
    /\ led_calls = <<>>

NextFunctionLeds == function_leds

SpecFunctionLeds == InitFunctionLeds /\ [][NextFunctionLeds]_vars

\* the values of the uint16_t periodo tried around the width of the uint8_t
\* counter of the delay loop
Periodos == {0, MaxPeriodo, 2^8 - 1, 2^8}

\* a call function_leds(&my_leds) with any mode, LED and n_ciclos, and a
\* periodo on either side of 2^8, the LEDs being off
InitLongPeriodo ==
    /\ Globals(CONFIG_MEASURE_PERIOD)
    /\ Uncounted
    /\ NoTasks("ejercicio_3_proyecto_1")
    /\ BcdIdle
    /\ GpioIdle
    /\ my_leds \in [mode : Modes, n_led : 1..3,
                     n_ciclos : 0..MaxCiclos, periodo : Periodos]
    /\ fl_pc = "switch"
    /\ fl_i = 0
    /\ fl_j = 0
    /\ led_calls = <<>>

\* function_leds keeps executing once called: vTaskDelay returns
SpecLongPeriodo ==
    InitLongPeriodo /\ [][NextFunctionLeds]_vars /\ WF_vars(function_leds)

NextAnalog ==
    \/ analogWrite
    \/ analogWriteTask

\* the analog example when app_main has returned
InitAnalog ==
    /\ Globals(CONFIG_MEASURE_PERIOD) /\ Uncounted /\ Booted("analog")
    /\ BcdIdle /\ FlIdle /\ GpioIdle

SpecAnalog == InitAnalog /\ [][NextAnalog]_vars

\* both timers and both tasks of the analog example
NextAnalogIO ==
    \/ analogReadAndSend
    \/ analogReadAndSendTask
    \/ analogWrite
    \/ analogWriteTask

SpecAnalogIO == InitAnalog /\ [][NextAnalogIO]_vars

\* entry of app_main of any of the timer-driven programs
InitBoot ==
    /\ Globals(CONFIG_MEASURE_PERIOD)
    /\ Uncounted
    /\ prog \in Programs
    /\ main_pc = 0
    /\ handles = {}
    /\ timers = {}
    /\ lost = FALSE
    /\ BcdIdle
    /\ FlIdle
    /\ GpioIdle

NextBoot ==
    \/ AppMainStep
    \/ \E t \in {"TIMER_A", "TIMER_B"} : TimerFires(t)
    \/ TaskRuns

SpecBoot == InitBoot /\ [][NextBoot]_vars

(*------------------------------- claims ----------------------------------*)
AllLedsOff == leds = LedsOffAll
LcdIsOff == lcd.on = FALSE
SensorRead == Task_ReadCm \/ Task_ReadIn
LineSend == Task_SendPrefix \/ Task_SendNumber \/ Task_SendSuffix

\* C1: under any sequence of 'F' and 'S' commands from the initial period,
\* timer_medir.period stays within [TIEMPO_DE_LECTURA_MINIMO,
\* TIEMPO_DE_LECTURA_MAXIMO]; an 'F' at the minimum and an 'S' at the maximum
\* leave the period unchanged.
C1_PeriodWithinBounds ==
    /\ [](TIEMPO_DE_LECTURA_MINIMO <= period /\ period <= TIEMPO_DE_LECTURA_MAXIMO)
    /\ [][(leer_teclado("F") /\ period = TIEMPO_DE_LECTURA_MINIMO) => period' = period]_vars
    /\ [][(leer_teclado("S") /\ period = TIEMPO_DE_LECTURA_MAXIMO) => period' = period]_vars

\* an 'F' has been handled with the period at the minimum
C1_Witness == period = TIEMPO_DE_LECTURA_MINIMO /\ uart_tx = Echo("F")

\* C2 (as claimed): whenever medir is false, all three LEDs and the LCD are
\* off, whatever hold is and wherever tecla_1 interrupts a worker cycle.
C2_DisabledImpliesSinksOff == medir = FALSE => (AllLedsOff /\ LcdIsOff)

\* C3 (as claimed): while medir is false the worker performs no sensor read
\* and sends no part of a measurement line.
C3_NoOutputWhileDisabled == [][medir = FALSE => ~(SensorRead \/ LineSend)]_vars

\* C4 (as claimed): in a worker cycle during which hold and medir are true,
\* no step changes the LEDs or the LCD, and when the cycle ends exactly one
\* measurement line has been transmitted.
C4_HoldCycleTransmitsOnce ==
    [][(hold_cycle /\ medir_cycle /\ hold_cycle' /\ medir_cycle' /\ pc # "wait")
          => (UNCHANGED sinkVars /\ (pc' = "wait" => lines' = 1))]_vars

\* C5 (as claimed): in a worker cycle in which hold is true no sample is
\* read and no measurement line is transmitted.
C5_HoldSuppressesSampling == hold_cycle => (reads = 0 /\ lines = 0)

\* C5 (amended): in a worker cycle in which hold is true the worker never
\* reaches the calls that write the LEDs and the LCD; reading and
\* transmitting are not suppressed by hold.
C5_HoldSuppressesRendering == hold_cycle => pc \notin {"if175_medir", "leds", "lcd"}

\* a cycle run entirely under hold has read a sample and transmitted its line
C5_Witness == hold_cycle /\ pc = "wait" /\ reads = 1 /\ lines = 1

\* C6: after N toggles of a flag, handlers run to completion, the flag
\* equals its default (medir true, hold false, pulgadas false) XOR (N mod 2).
C6_FlagIsDefaultXorParity ==
    /\ medir = (toggles.medir = 0)
    /\ hold = (toggles.hold = 1)
    /\ pulgadas = (toggles.pulgadas = 1)

\* every flag has been toggled an odd number of times, in the middle of a cycle
C6_Witness ==
    /\ toggles = [medir |-> 1, hold |-> 1, pulgadas |-> 1]
    /\ pc = "send_number"

C8_StepIs100ms ==
    [][/\ (leer_teclado("F") /\ period > TIEMPO_DE_LECTURA_MINIMO)
             => period' = period - 100 * 1000
       /\ (leer_teclado("S") /\ period < TIEMPO_DE_LECTURA_MAXIMO)
             => period' = period + 100 * 1000]_vars

\* C9: the n-th value produced by sampleSignal is test_signal[(n - 1) mod
\* SIGNAL_SIZE], and the (SIGNAL_SIZE + k + 1)-th equals the (k + 1)-th.
C9_ReplayIsPeriodic ==
    \A n \in 1..Len(dac_out) :
        /\ dac_out[n] = test_signal[(n - 1) % SIGNAL_SIZE]
        /\ n > SIGNAL_SIZE => dac_out[n] = dac_out[n - SIGNAL_SIZE]

\* the replay has wrapped twice
C9_Witness == Len(dac_out) = 2 * SIGNAL_SIZE + 1 /\ sample_index = 1

\* C10: a byte that is none of 'O', 'H', 'I', 'F', 'S' leaves the mode
\* flags, the period, the programmed timer period, the LEDs and the LCD
\* unchanged.
C10_UnknownByteIgnored ==
    [][\A letra \in Bytes \ {"O", "H", "I", "F", "S"} :
          leer_teclado(letra) => UNCHANGED <<flagVars, periodVars, sinkVars>>]_vars

\* 'M' has been handled while the LEDs and the LCD were showing a measurement
C10_Witness == uart_tx = Echo("M") /\ leds[1] = TRUE /\ lcd.on = TRUE

\* C11: a take by the worker needs at least one pending notification and
\* leaves none pending, however many (1..MaxNotify) had piled up since the
\* previous take: n notifications cause one cycle, and the next cycle needs
\* a later notification.
C11_NotificationsCoalesce ==
    [][(pc = "wait" /\ pc' # "wait") => (notify >= 1 /\ taken' = notify /\ notify' = 0)]_vars

\* a cycle woken by two coalesced notifications has ended and the worker is
\* parked again with nothing pending
C11_Witness == taken = 2 /\ pc = "wait" /\ notify = 0

\* C12: in app_main of proyecto2_e2, proyecto2_e3 and the analog example,
\* every started timer notifies a task that has already been created (its
\* handle is not NULL), so no timer callback ever notifies a NULL handle.
C12_TaskCreatedBeforeTimerStart ==
    /\ \A t \in timers : NotifiedTask(prog, t) \in handles
    /\ lost = FALSE

\* Timer A of the analog example has fired while app_main was still
\* starting Timer B, and the notification is pending on the created task
C12_Witness ==
    /\ prog = "analog"
    /\ main_pc < Len(app_main_analog)
    /\ timers = {"TIMER_A"}
    /\ notify_r > 0

SinksCleared == leds' = LedsOffAll /\ lcd' = LcdItsE0803Off

\* C13 (as claimed): no button handler and no command handler changes the
\* LEDs, the LCD or what is on the UART transmit line.
C13_OnlyWorkerWritesSinks ==
    [][(tecla_1 \/ tecla_2 \/ \E letra \in Bytes : leer_teclado(letra))
          => UNCHANGED <<leds, lcd, uart_tx>>]_vars

\* C13 (amended): the handlers write the sinks only in two ways: tecla_1
\* (SW1 or 'O') may switch all LEDs and the LCD off, and leer_teclado sends
\* the echo of the byte it read. tecla_2 writes no sink, the buttons send
\* nothing on the UART, and no byte other than 'O' touches LEDs or LCD.
C13_HandlersOnlyClearAndEcho ==
    [][/\ tecla_2 => UNCHANGED <<sinkVars, uart_tx>>
       /\ tecla_1 => (uart_tx' = uart_tx /\ (UNCHANGED sinkVars \/ SinksCleared))
       /\ \A letra \in Bytes :
             leer_teclado(letra) =>
                /\ uart_tx' = Echo(letra)
                /\ IF letra = "O" THEN UNCHANGED sinkVars \/ SinksCleared
                   ELSE UNCHANGED sinkVars]_vars

\* 'O' has switched off the LEDs the worker had just lit, before the worker
\* wrote the LCD
C13_Witness ==
    /\ pc = "lcd" /\ distancia >= MIN_DIST
    /\ medir = FALSE /\ AllLedsOff /\ uart_tx = Echo("O")

C15_TimerFollowsPeriod ==
    /\ [](hw_period = period)
    /\ [][\A letra \in Bytes :
            leer_teclado(letra) => ((hw_updates' # hw_updates) <=> (period' # period))]_vars

\* an 'S' has been handled at the maximum, reached after 10 000 changes
C15_Witness ==
    /\ period = TIEMPO_DE_LECTURA_MAXIMO /\ hw_period = TIEMPO_DE_LECTURA_MAXIMO
    /\ uart_tx = Echo("S") /\ f_run = 0

\* C16: for every byte leer_teclado reads, recognised or not, the echo of
\* that same byte is sent while the flags, the period, the timer and the
\* sinks are still as they were; the switch that applies the byte sends
\* nothing more, and nothing is echoed when no byte is read.
C16_EchoBeforeEffect ==
    [][/\ (kb_letra = NoByte /\ kb_letra' # NoByte)
            => (uart_tx' = Echo(kb_letra') /\ UNCHANGED <<flagVars, periodVars, sinkVars>>)
       /\ (kb_letra # NoByte /\ kb_letra' = NoByte) => uart_tx' = uart_tx
       /\ kb_letra' = kb_letra => uart_tx' = uart_tx]_vars

\* 'O' has been echoed and its toggle is still to be applied, after an
\* unrecognised byte had been echoed and ignored
C16_Witness ==
    /\ kb_letra = "O" /\ uart_tx = Echo("O")
    /\ medir = TRUE /\ toggles.medir = 0 /\ hold = TRUE

\* the number a sequence of decimal digits denotes
RECURSIVE DecimalValue(_)
DecimalValue(ds) ==
    IF ds = <<>> THEN 0
    ELSE 10 * DecimalValue(SubSeq(ds, 1, Len(ds) - 1)) + ds[Len(ds)]

\* C17: in a worker cycle during which medir is true and no flag is
\* toggled, the worker sends "Distancia: ", then the decimal digits of the
\* value it read, then " cm\r\n" after a centimetre read (pulgadas false)
\* or " in\r\n" after an inch read (pulgadas true); the cycle ends with one
\* read and one line, and with hold false the LCD shows the value sent.
C17_OneLinePerEnabledCycle ==
    [][(stable /\ stable' /\ medir /\ pc' # pc) =>
          /\ pc = "send_prefix" => uart_tx' = Text("Distancia: ")
          /\ pc = "send_number" =>
                /\ uart_tx'[1] = "number"
                /\ \A i \in 1..Len(uart_tx'[2]) : uart_tx'[2][i] \in 0..9
                /\ DecimalValue(uart_tx'[2]) = distancia
          /\ pc = "send_suffix" =>
                /\ unit_read = (IF pulgadas THEN "in" ELSE "cm")
                /\ uart_tx' = Text(IF pulgadas THEN " in\r\n" ELSE " cm\r\n")
          /\ pc = "lcd" => lcd' = LcdItsE0803Write(distancia)
          /\ pc' = "wait" =>
                /\ reads' = 1 /\ lines' = 1
                /\ hold = FALSE => (lcd'.on /\ lcd'.value = distancia)]_vars

\* a cycle in inches has run undisturbed with hold false: 35 cm were sent
\* as "13" with the inch suffix and 13 is on the LCD
C17_Witness ==
    /\ stable /\ pc = "wait" /\ medir /\ pulgadas /\ hold = FALSE
    /\ unit_read = "in" /\ reads = 1 /\ lines = 1
    /\ uart_tx = Text(" in\r\n") /\ lcd = LcdItsE0803Write(InchesOf(35))

\* the LED pattern the documentation of encenderLedSegunDistancia gives
DocumentedLeds(d) ==
    IF d < 10 THEN <<FALSE, FALSE, FALSE>>
    ELSE IF d < 20 THEN <<TRUE, FALSE, FALSE>>
    ELSE IF d <= 30 THEN <<TRUE, TRUE, FALSE>>
    ELSE <<TRUE, TRUE, TRUE>>

\* C18 (as claimed): right after encenderLedSegunDistancia(distancia),
\* whatever the LEDs showed before, no LED is on below 10, only LED_1 from
\* 10 to 19, only LED_1 and LED_2 from 20 to 30 included, and all three
\* above 30.
C18_LedsAsDocumented == pc = "lcd" => leds = DocumentedLeds(distancia)

RECURSIVE Pow10(_)
Pow10(n) == IF n = 0 THEN 1 ELSE 10 * Pow10(n - 1)

\* the first n elements of bcd_number, as a sequence
BcdDigits(n) == [k \in 1..n |-> bcd_number[k - 1]]

\* C19: when convertToBcdArray(data, digits, bcd_number) returns, digits
\* being at least 1, every bcd_number[i] with i < digits is a decimal digit,
\* the digits read from bcd_number[0] (most significant) denote
\* data mod 10^digits, and the function has written the indices
\* 0..digits-1 and no other byte.
C19_BcdIsDecimalExpansion ==
    (bcd_pc = "return" /\ digits >= 1) =>
        /\ \A k \in 0..(digits - 1) : bcd_number[k] \in 0..9
        /\ DecimalValue(BcdDigits(digits)) = data_in % Pow10(digits)
        /\ bcd_written = 0..(digits - 1)
        /\ \A k \in BcdCells \ (0..(digits - 1)) : bcd_number[k] = Unwritten

\* 1027 has been converted with three digits: 0, 2, 7, the thousands dropped
C19_Witness ==
    /\ bcd_pc = "return" /\ data_in = 1027 /\ digits = 3
    /\ BcdDigits(3) = <<0, 2, 7>>

\* the calls to the LED driver that a mode executed on its own makes
OwnCalls(t) ==
    CASE t.mode = ON -> << <<"LedOn", t.n_led>> >>
      [] t.mode = OFF -> << <<"LedOff", t.n_led>> >>
      [] OTHER -> [k \in 1..t.n_ciclos |-> <<"LedToggle", t.n_led>>]

\* C20 (as claimed): when function_leds returns, the calls it has made to
\* the LED driver are those of its own mode only: one LedOn of the selected
\* LED for ON, one LedOff for OFF, n_ciclos LedToggle for TOGGLE.
C20_ModesIndependent == fl_pc = "return" => led_calls = OwnCalls(my_leds)

\* C21: when a button interrupt (tecla_1, tecla_2) preempts leer_teclado in the
\* middle of the negation of the same flag ('O', 'H'), no toggle is lost:
\* once the handlers have returned, the flag is its default XOR the parity of
\* the number of toggles performed.
C21_NoToggleLost ==
    (kb_letra = NoByte) =>
        /\ medir = (toggles.medir = 0)
        /\ hold = (toggles.hold = 1)

\* C22: under any interleaving of the toggle handlers with a worker cycle,
\* the value the worker renders (LED thresholds, LCD) is a sample read in that
\* same cycle: the placeholder 0 of line 163 is never rendered without a
\* sensor read.
C22_RenderedValueWasRead == (pc \in {"leds", "lcd"}) => reads >= 1

\* C23: the unit suffix of every transmitted line names the unit in which the
\* value of that line was measured, even when 'I' toggles pulgadas during the
\* cycle.
C23_SuffixNamesUnitRead ==
    [][(pc = "send_suffix" /\ pc' # "send_suffix")
          => uart_tx' = Text(IF unit_read = "in" THEN " in\r\n" ELSE " cm\r\n")]_vars

\* C24: a measurement line is contiguous on the UART: between the first and
\* the last UartSendString of mandar_distancia, what was last sent is a part
\* of the line, never an echo of leer_teclado.
C24_LineIsContiguous ==
    (pc \in {"send_number", "send_suffix"}) => uart_tx[1] \in {"text", "number"}

\* C25: the worker starts a cycle only after a timer notification. The cycles
\* started never outnumber the timer fires; parked in ulTaskNotifyTake with
\* no notification pending the worker can take no step (no sensor read, no
\* render, no transmission); and every cycle under way began with a take
\* that returned at least one notification.
C25_CyclesFollowFires ==
    /\ cycles <= fires
    /\ (pc = "wait" /\ notify = 0) => ~ENABLED Medir_MostrarPantalla_Task
    /\ (pc # "wait") => (cycles >= 1 /\ taken >= 1)

\* three fires of which two coalesced, the second cycle rendering
C25_Witness == fires = 3 /\ cycles = 2 /\ pc = "lcd"

\* C26: when the worker is scheduled fairly, every timer fire is eventually
\* followed by a take that consumes it, and every cycle that has started
\* eventually completes and returns the worker to its wait, whatever the
\* flags are and whatever commands and button events occur.
C26_EveryFireServed ==
    /\ (notify > 0) ~> (notify = 0 /\ pc = "if164_medir")
    /\ (pc # "wait") ~> (pc = "wait")

\* a cycle that began with measuring disabled and hold set has completed
C26_Witness ==
    /\ pc = "wait" /\ taken >= 1 /\ stable
    /\ medir = FALSE /\ hold = TRUE /\ reads = 0

\* C27: a timer fire (Medir_MostrarPantalla, analogReadAndSend, analogWrite)
\* changes only the pending notification of its task: the flags, the period,
\* the replay cursor, the DAC, the LEDs, the LCD, the UART and the worker's
\* own variables are as they were.
C27_TimerFireOnlyNotifies ==
    [][(notify' > notify \/ notify_r' > notify_r \/ notify_w' > notify_w)
          => UNCHANGED <<flagVars, periodVars, sinkVars, uart_tx, pc, distancia,
                         sample_index, signal_value, dac_out>>]_vars

\* Timer B has fired again after the replay cursor has moved
C27_Witness == prog = "analog" /\ notify_w > 0 /\ sample_index = 2 /\ Len(dac_out) = 2

\* C28: a worker cycle never writes medir, hold, pulgadas or
\* timer_medir.period: across every step of the worker they keep the value
\* the handlers last wrote, and the timer stays programmed as it was.
C28_WorkerWritesNoFlag ==
    [][(pc' # pc) => UNCHANGED <<medir, hold, pulgadas, period, hw_period>>]_vars

\* a cycle has run to its end with every flag away from its default
C28_Witness ==
    /\ pc = "wait" /\ reads = 1 /\ lines = 1
    /\ medir = TRUE /\ hold = TRUE /\ pulgadas = TRUE

\* C29: each command changes only its own target: 'O' only medir (and the
\* LEDs and the LCD, cleared, when it disables measuring), 'H' only hold,
\* 'I' only pulgadas, 'F' and 'S' only timer_medir.period and the period
\* programmed in the timer.
C29_CommandWritesOwnTarget ==
    [][/\ leer_teclado("O") =>
             /\ UNCHANGED <<hold, pulgadas, periodVars>>
             /\ medir' = TRUE => UNCHANGED sinkVars
             /\ medir' = FALSE => SinksCleared
       /\ leer_teclado("H") => UNCHANGED <<medir, pulgadas, periodVars, sinkVars>>
       /\ leer_teclado("I") => UNCHANGED <<medir, hold, periodVars, sinkVars>>
       /\ (leer_teclado("F") \/ leer_teclado("S")) => UNCHANGED <<flagVars, sinkVars>>]_vars

\* every command has been received: both periods and all three flags moved
C29_Witness ==
    /\ toggles = [medir |-> 1, hold |-> 1, pulgadas |-> 1]
    /\ period = CONFIG_MEASURE_PERIOD - TIEMPO_DE_LECTURA_STEP
    /\ hw_period = period
    /\ uart_tx = Echo("F")

\* C30 (as claimed): whenever hold and medir are both true, the LCD and the
\* LEDs show the value most recently rendered by the worker; in particular,
\* once a value is on the LCD, it is still shown at every later moment at
\* which hold and medir are true, also after toggle-enable off and on.
C30_HoldShowsLastRendered == [](lcd.on => [](hold /\ medir => lcd.on))

\* C30 (amended): while hold has been true since the worker's last take, no
\* step changes the LEDs or the LCD except tecla_1 disabling measuring, which
\* clears them; and enabling measuring while hold is true restores nothing.
C30_HoldKeepsOrClears ==
    [][/\ (hold_cycle /\ hold_cycle')
            => (UNCHANGED sinkVars \/ (SinksCleared /\ medir' = FALSE))
       /\ (hold /\ hold' /\ ~medir /\ medir') => UNCHANGED sinkVars]_vars

\* a cycle run under hold has read 5 cm and left the 35 of an earlier cycle
\* on the LCD
C30_Witness ==
    /\ hold_cycle /\ medir /\ pc = "wait"
    /\ reads = 1 /\ unit_read = "cm" /\ distancia = 5
    /\ lcd = LcdItsE0803Write(35)

\* C31: the LED range indication follows the thresholds in centimetres
\* whatever unit is selected: when the worker lights the LEDs for a value it
\* read in inches, the pattern is the one encenderLedSegunDistancia gives for
\* the same physical distance in centimetres.
C31_LedsSameInBothUnits ==
    [][(pc = "leds" /\ pc' = "lcd" /\ unit_read = "in")
          => \E d \in Distances :
                /\ distancia = InchesOf(d)
                /\ leds' = encenderLedSegunDistancia(d, leds)]_vars

\* C32: in the polling variant the buttons are edge-triggered: one press of
\* SW1 (SW2), held over any number of consecutive polls of Teclas_Task,
\* toggles medir (hold) exactly once.
C32_OnePressOneToggle ==
    /\ press_toggles.medir <= 1
    /\ press_toggles.hold <= 1

\* C33: in every reachable state of the analog program sample_index is
\* within 0..SIGNAL_SIZE-1, so sampleSignal never indexes test_signal out of
\* bounds; each call moves sample_index to (sample_index + 1) mod
\* SIGNAL_SIZE and returns the element at the index held before the call.
C33_CursorInBounds ==
    /\ [](sample_index \in 0..(SIGNAL_SIZE - 1))
    /\ [][Len(dac_out') = Len(dac_out) + 1
            => /\ sample_index' = (sample_index + 1) % SIGNAL_SIZE
               /\ dac_out'[Len(dac_out')] = test_signal[sample_index]
               /\ signal_value' = test_signal[sample_index]]_vars

\* the call made with the cursor on the last element has wrapped it to 0
C33_Witness == Len(dac_out) = SIGNAL_SIZE /\ sample_index = 0 /\ signal_value = test_signal[SIGNAL_SIZE - 1]

\* C34: the two pipelines of the analog program are independent. A Timer A
\* fire wakes only analogReadAndSendTask and a Timer B fire only
\* analogWriteTask; the read task never changes sample_index and never
\* writes the DAC; the write task never transmits on the UART; and the
\* replay cursor advances exactly once per cycle of the write task, under
\* any interleaving of the two tasks and the two timers.
C34_PipelinesIndependent ==
    [][/\ (notify_r' > notify_r) => UNCHANGED <<notify_w, sample_index, dac_out, uart_tx, ar_pc>>
       /\ (notify_w' > notify_w) => UNCHANGED <<notify_r, sample_index, dac_out, uart_tx, ar_pc>>
       /\ (ar_pc' # ar_pc) => UNCHANGED <<sample_index, signal_value, dac_out, notify_w>>
       /\ (notify_w > 0 /\ notify_w' = 0)
             => /\ sample_index' = (sample_index + 1) % SIGNAL_SIZE
                /\ Len(dac_out') = Len(dac_out) + 1
                /\ UNCHANGED <<uart_tx, adc_value, ar_pc, notify_r>>
       /\ (sample_index' # sample_index \/ dac_out' # dac_out)
             => (notify_w > 0 /\ notify_w' = 0)]_vars

\* the write task has completed cycles while the read task was in the
\* middle of a line
C34_Witness ==
    /\ ar_pc = "send_value" /\ adc_value = 1023
    /\ Len(dac_out) = 3 /\ sample_index = 3
    /\ notify_r > 0 /\ notify_w > 0

\* C35: for every period p above the minimum an 'F' followed by an 'S'
\* restores p, and for every p below the maximum an 'S' followed by an 'F'
\* restores p; the period programmed in the timer, which always equals
\* timer_medir.period, is restored as well.
C35_FasterSlowerAreInverse ==
    /\ [](hw_period = period)
    /\ [][(leer_teclado("F") /\ period > TIEMPO_DE_LECTURA_MINIMO)
            => (period' # period /\ PeriodAfterS(period') = period)]_vars
    /\ [][(leer_teclado("S") /\ period < TIEMPO_DE_LECTURA_MAXIMO)
            => (period' # period /\ PeriodAfterF(period') = period)]_vars

\* an 'S' has undone an 'F': the timer has been reprogrammed twice and is
\* back at the initial period
C35_Witness ==
    /\ period = CONFIG_MEASURE_PERIOD /\ hw_period = CONFIG_MEASURE_PERIOD
    /\ hw_updates = 0 /\ uart_tx = Echo("S")

\* C36: convertToBcdArray returns 0 only when the conversion was successful:
\* whenever it returns (its only return is `return 0`), the digits stored in
\* bcd_number denote data exactly, no significant digit having been dropped.
C36_ZeroMeansExact ==
    (bcd_pc = "return") => DecimalValue(BcdDigits(digits)) = data_in

\* the number the four data lines show, gpio_array[0] being the least
\* significant bit
RECURSIVE PinsValueFrom(_)
PinsValueFrom(k) ==
    IF k > 3 THEN 0
    ELSE (IF gpio_data[k] THEN 1 ELSE 0) + 2 * PinsValueFrom(k + 1)

PinsValue == PinsValueFrom(0)

\* the selector pins that are on
SelectorsOn == {k \in SelPins : gpio_sel[k]}

\* the decimal digit of n that display position k shows when there are d
\* positions, position 0 being the most significant
DigitAt(n, d, k) == (n \div Pow10(d - 1 - k)) % 10

\* the LedToggle calls made so far
ToggleCalls == SelectSeq(led_calls, LAMBDA c : c[1] = "LedToggle")

\* C38 (as claimed): function_leds terminates for every n_ciclos and every
\* periodo of the uint16_t field, having toggled the LED exactly n_ciclos
\* times.
C38_ToggleTerminates ==
    <>(fl_pc = "return" /\ Len(ToggleCalls) = my_leds.n_ciclos)

\* C37: during displayNumber at most one digit-selector pin is on at any
\* moment; selector i is turned on only when the four data lines hold the
\* BCD value of digit i of data, the most significant digit being digit 0
\* and selected first; and all selector pins are off when it returns.
C37_OneSelectorAfterLoad ==
    /\ [](Cardinality(SelectorsOn) <= 1)
    /\ [](dn_pc = "return" => SelectorsOn = {})
    /\ [][\A k \in SelPins :
            (~gpio_sel[k] /\ gpio_sel'[k])
               => /\ k = dn_i
                  /\ SelectorsOn = {}
                  /\ PinsValue = DigitAt(data_in, digits, k)]_vars

\* 127 on three digits: the last selector is on with 7 on the data lines
C37_Witness ==
    /\ data_in = 127 /\ digits = 3
    /\ dn_pc = "on" /\ SelectorsOn = {2} /\ PinsValue = 7

\* C39: after setGpioFromBcd(bcd_digit, gpio_array), pin gpio_array[i] is on
\* exactly when bit i of bcd_digit is 1, gpio_array[0] being the least
\* significant bit, for every digit 0..9 and whatever the pins were before.
C39_PinsShowDigit == (sg_pc = "return") => PinsValue = bcd_digit

\* 6 has been loaded: b1 and b2 on, b0 and b3 off
C39_Witness ==
    /\ sg_pc = "return" /\ bcd_digit = 6
    /\ gpio_data = [k \in DataPins |-> k \in {1, 2}]

====
